---- MODULE Spec2Model ----
(***************************************************************************)
(* Circulation engine of librarian-pro: the stored procedures              *)
(* checkout_book, member_checkout_book, return_book, calculate_fine,       *)
(* calculate_member_fine, mark_fine_paid and renew_book, the trigger       *)
(* auto_calculate_fine, and the tables books, transactions and             *)
(* member_transactions they act on; generate_member_id and the Members     *)
(* page that calls it; the form of the Books page that edits a book; the   *)
(* fine polling of the Borrowing page; the manage-staff endpoint with the  *)
(* tables auth.users, user_roles and member_profiles.                      *)
(*                                                                         *)
(* Time is counted in ticks, TicksPerDay ticks to a day, so that a         *)
(* timestamp difference has a whole-day part and a remainder, as a         *)
(* PostgreSQL interval has.                                                *)
(***************************************************************************)
EXTENDS Integers, Sequences, FiniteSets, TLC

\* ---------------------------------------------------------------- bounds
TicksPerDay == 2          \* resolution of the clock
MaxNow == 2               \* horizon of the clock where short loans run, in ticks
FineDays == 5             \* horizon of the clock in SpecFine and SpecPaid, in days
MaxTxns == 2              \* rows of transactions
MaxMemberTxns == 2        \* rows of member_transactions
MaxCopies == 2            \* largest total_copies of a book
MaxMembers == 3           \* rows of members
MaxYears == 2             \* horizon of the clock in SpecMembers, in years
MaxStaff == 2             \* accounts the manage-staff endpoint has created

\* ------------------------------------------------------------- constants
NULL == -1                \* SQL NULL of a nullable timestamp column
FineRate == 200           \* currency units per overdue day
LoanDays == 14            \* the loan period the pages pass as p_due_days
SeqLimit == 10000         \* LPAD(..., 4, '0'): a sequence number has 4 digits
DaysPerYear == 365        \* EXTRACT(YEAR FROM NOW()) changes once a year

Members == {"m1", "m2"}                 \* members.id
Users == {"u1"}                         \* auth.users.id
NoUser == "anon"                        \* auth.uid() IS NULL
Books == {"b1", "b2"}                   \* books.id
NoBook == "b0"                          \* a book id that does not resolve
DueDaysSet == {0, 1}                    \* values of p_due_days, short loans
ExtendDaysSet == {1}                    \* values of p_extend_days

VARIABLES
  books,                \* table books: id -> row
  transactions,         \* table transactions: sequence of rows, id = index
  member_transactions,  \* table member_transactions: sequence of rows
  now,                  \* the database clock, in ticks
  last,                 \* outcome of the last procedure call
  procs,                \* concurrent sessions: the position of each call
  members,              \* table members: the member_id of each row
  booksPage,            \* state of the Books page: books, editingBook, formData
  paid_amount,          \* history: the fine_amount a transaction had when
                        \* mark_fine_paid acted on it, NULL before that
  users,                \* auth.users: the ids of the accounts
  user_roles,           \* table user_roles: rows <<user_id, role>>
  member_profiles,      \* table member_profiles: user_id -> full_name
  response,             \* the last answer of the manage-staff endpoint, with
                        \* the Authorization header and action of the request
  borrowingPage         \* state of the Borrowing page: transactions, loading,
                        \* and the calculateFine calls under way

db == <<books, transactions, member_transactions>>
staffVars == <<users, user_roles, member_profiles, response>>
vars == <<books, transactions, member_transactions, now, last, procs,
          members, booksPage, paid_amount, users, user_roles,
          member_profiles, response, borrowingPage>>

\* ------------------------------------------------------------ time, NUMERIC
\* variant of Days: a day lasts one tick
Days_ticks(n) == n

Days(n) == n * TicksPerDay

\* variant of TimestampMi: a started day counts as a whole day
TimestampMi_ceil(a, b) ==
  LET d == a - b
      mag == IF d >= 0 THEN d ELSE -d
      sgn == IF d >= 0 THEN 1 ELSE -1
  IN [days |-> sgn * ((mag + TicksPerDay - 1) \div TicksPerDay), time |-> 0]

\* timestamptz - timestamptz: an interval of whole days and a remainder,
\* both carrying the sign of the difference
TimestampMi(a, b) ==
  LET d == a - b
      mag == IF d >= 0 THEN d ELSE -d
      sgn == IF d >= 0 THEN 1 ELSE -1
  IN [days |-> sgn * (mag \div TicksPerDay), time |-> sgn * (mag % TicksPerDay)]

\* EXTRACT(DAY FROM interval)
ExtractDay(iv) == iv.days

Greatest(a, b) == IF a >= b THEN a ELSE b

\* ------------------------------------------------------------------ rows
\* variant of NewTransaction: the loan period is not added to the due date
NewTransaction_nodue(member, book, t, due_days) ==
  [member_id |-> member, book_id |-> book, checkout_date |-> t,
   due_date |-> t, return_date |-> NULL,
   status |-> "borrowed", fine_amount |-> 0, fine_paid |-> FALSE]

NewTransaction(member, book, t, due_days) ==
  [member_id |-> member, book_id |-> book, checkout_date |-> t,
   due_date |-> t + Days(due_days), return_date |-> NULL,
   status |-> "borrowed", fine_amount |-> 0, fine_paid |-> FALSE]

\* variant of NewMemberTransaction: the row is inserted as returned
NewMemberTransaction_returned(user, book, t, due_days) ==
  [user_id |-> user, book_id |-> book, checkout_date |-> t,
   due_date |-> t + Days(due_days), return_date |-> NULL,
   status |-> "returned", fine_amount |-> 0, fine_paid |-> FALSE]

NewMemberTransaction(user, book, t, due_days) ==
  [user_id |-> user, book_id |-> book, checkout_date |-> t,
   due_date |-> t + Days(due_days), return_date |-> NULL,
   status |-> "borrowed", fine_amount |-> 0, fine_paid |-> FALSE]

\* what a call answered: the procedure, the transaction id it was given (or
\* created), whether it succeeded, the message raised or returned, the value
\* returned, and the number of calculate_fine executions it caused
Outcome(op, id, ok, msg, value, calcs) ==
  [op |-> op, id |-> id, ok |-> ok, msg |-> msg, value |-> value,
   calcs |-> calcs]

\* variant of DecrementCopies: the status is left as it was
DecrementCopies_nostatus(bks, b) ==
  [bks EXCEPT ![b] = [@ EXCEPT !.available_copies = @ - 1]]

\* UPDATE books SET available_copies = available_copies - 1, status = CASE ...
DecrementCopies(bks, b) ==
  [bks EXCEPT ![b] =
     [@ EXCEPT !.available_copies = @ - 1,
               !.status = IF bks[b].available_copies - 1 = 0
                          THEN "borrowed" ELSE @]]

\* variant of IncrementCopies: the status is reset but the counter is not raised
IncrementCopies_statusonly(bks, b) ==
  [bks EXCEPT ![b] = [@ EXCEPT !.status = "available"]]

\* UPDATE books SET available_copies = available_copies + 1, status = CASE ...
IncrementCopies(bks, b) ==
  [bks EXCEPT ![b] =
     [@ EXCEPT !.available_copies = @ + 1,
               !.status = IF bks[b].available_copies + 1 > 0
                          THEN "available" ELSE @]]

\* ------------------------------------------------------- fine calculation
\* variant of OverdueDays: always measured up to the current time
OverdueDays_now(row, t) ==
  IF row.return_date # NULL \/ row.status = "borrowed" \/ row.status = "overdue"
  THEN Greatest(0, ExtractDay(TimestampMi(t, row.due_date)))
  ELSE 0

\* v_overdue_days of calculate_fine / calculate_member_fine for a row at time t
OverdueDays(row, t) ==
  IF row.return_date # NULL
  THEN Greatest(0, ExtractDay(TimestampMi(row.return_date, row.due_date)))
  ELSE IF row.status = "borrowed" \/ row.status = "overdue"
       THEN Greatest(0, ExtractDay(TimestampMi(t, row.due_date)))
       ELSE 0

\* variant of FineAmount: the fine of a paid transaction is not recalculated
FineAmount_settled(row, t) ==
  IF row.fine_paid THEN row.fine_amount ELSE OverdueDays(row, t) * FineRate

FineAmount(row, t) == OverdueDays(row, t) * FineRate

RECURSIVE CalculateFineRun(_, _, _)
RECURSIVE UpdateTransaction(_, _, _, _)

\* variant of AutoCalculateFine: the trigger never fires
AutoCalculateFine_off(run, id, old, new, t) == run

\* trigger_auto_calculate_fine, AFTER UPDATE ON transactions FOR EACH ROW;
\* run is [txns, calcs, value]: the table, the number of calculate_fine
\* executions so far, and the last value calculate_fine returned
AutoCalculateFine(run, id, old, new, t) ==
  IF new.return_date # NULL /\ old.return_date = NULL
  THEN CalculateFineRun(run, id, t)
  ELSE run

\* UPDATE transactions SET ... WHERE id = id, followed by its row trigger
UpdateTransaction(run, id, new, t) ==
  AutoCalculateFine([run EXCEPT !.txns[id] = new], id, run.txns[id], new, t)

\* variant of CalculateFineRun: a recalculated fine is owed again
CalculateFineRun_unpay(run, id, t) ==
  LET v_fine_amount == FineAmount(run.txns[id], t)
      counted == [run EXCEPT !.calcs = @ + 1]
      updated == UpdateTransaction(counted, id,
                   [counted.txns[id] EXCEPT !.fine_amount = v_fine_amount,
                                            !.fine_paid = FALSE], t)
  IN [updated EXCEPT !.value = v_fine_amount]

\* body of calculate_fine for an id that resolves
CalculateFineRun(run, id, t) ==
  LET v_fine_amount == FineAmount(run.txns[id], t)
      counted == [run EXCEPT !.calcs = @ + 1]
      updated == UpdateTransaction(counted, id,
                   [counted.txns[id] EXCEPT !.fine_amount = v_fine_amount], t)
  IN [updated EXCEPT !.value = v_fine_amount]

\* ------------------------------------------------------------- operations
NoRun(txns) == [txns |-> txns, calcs |-> 0, value |-> 0]

\* variant of checkout_book: the availability check admits a count of 0
checkout_book_lax(p_member_id, p_book_id, p_due_days) ==
  /\ UNCHANGED <<now, procs, members, booksPage, paid_amount,
                 staffVars, borrowingPage, member_transactions>>
  /\ IF p_book_id \notin DOMAIN books
     THEN /\ last' = Outcome("checkout_book", 0, FALSE, "Book not found", 0, 0)
          /\ UNCHANGED <<books, transactions>>
     ELSE IF books[p_book_id].available_copies < 0
     THEN /\ last' = Outcome("checkout_book", 0, FALSE,
                             "No available copies of this book", 0, 0)
          /\ UNCHANGED <<books, transactions>>
     ELSE /\ transactions' = Append(transactions,
                 NewTransaction(p_member_id, p_book_id, now, p_due_days))
          /\ books' = DecrementCopies(books, p_book_id)
          /\ last' = Outcome("checkout_book", Len(transactions) + 1, TRUE, "",
                             Len(transactions) + 1, 0)

checkout_book(p_member_id, p_book_id, p_due_days) ==
  /\ UNCHANGED <<now, procs, members, booksPage, paid_amount,
                 staffVars, borrowingPage, member_transactions>>
  /\ IF p_book_id \notin DOMAIN books
     THEN /\ last' = Outcome("checkout_book", 0, FALSE, "Book not found", 0, 0)
          /\ UNCHANGED <<books, transactions>>
     ELSE IF books[p_book_id].available_copies <= 0
     THEN /\ last' = Outcome("checkout_book", 0, FALSE,
                             "No available copies of this book", 0, 0)
          /\ UNCHANGED <<books, transactions>>
     ELSE /\ transactions' = Append(transactions,
                 NewTransaction(p_member_id, p_book_id, now, p_due_days))
          /\ books' = DecrementCopies(books, p_book_id)
          /\ last' = Outcome("checkout_book", Len(transactions) + 1, TRUE, "",
                             Len(transactions) + 1, 0)

\* variant of member_checkout_book: a caller with an unpaid fine is refused
member_checkout_book_eligible(uid, p_book_id, p_due_days) ==
  /\ UNCHANGED <<now, procs, members, booksPage, paid_amount,
                 staffVars, borrowingPage, transactions>>
  /\ IF uid = NoUser
     THEN /\ last' = Outcome("member_checkout_book", 0, FALSE,
                             "User not authenticated", 0, 0)
          /\ UNCHANGED <<books, member_transactions>>
     ELSE IF p_book_id \notin DOMAIN books
     THEN /\ last' = Outcome("member_checkout_book", 0, FALSE,
                             "Book not found", 0, 0)
          /\ UNCHANGED <<books, member_transactions>>
     ELSE IF \/ books[p_book_id].available_copies <= 0
             \/ \E i \in DOMAIN member_transactions :
                  /\ member_transactions[i].user_id = uid
                  /\ member_transactions[i].fine_amount > 0
                  /\ ~member_transactions[i].fine_paid
     THEN /\ last' = Outcome("member_checkout_book", 0, FALSE,
                             "No available copies of this book", 0, 0)
          /\ UNCHANGED <<books, member_transactions>>
     ELSE /\ member_transactions' = Append(member_transactions,
                 NewMemberTransaction(uid, p_book_id, now, p_due_days))
          /\ books' = DecrementCopies(books, p_book_id)
          /\ last' = Outcome("member_checkout_book",
                             Len(member_transactions) + 1, TRUE, "",
                             Len(member_transactions) + 1, 0)

member_checkout_book(uid, p_book_id, p_due_days) ==
  /\ UNCHANGED <<now, procs, members, booksPage, paid_amount,
                 staffVars, borrowingPage, transactions>>
  /\ IF uid = NoUser
     THEN /\ last' = Outcome("member_checkout_book", 0, FALSE,
                             "User not authenticated", 0, 0)
          /\ UNCHANGED <<books, member_transactions>>
     ELSE IF p_book_id \notin DOMAIN books
     THEN /\ last' = Outcome("member_checkout_book", 0, FALSE,
                             "Book not found", 0, 0)
          /\ UNCHANGED <<books, member_transactions>>
     ELSE IF books[p_book_id].available_copies <= 0
     THEN /\ last' = Outcome("member_checkout_book", 0, FALSE,
                             "No available copies of this book", 0, 0)
          /\ UNCHANGED <<books, member_transactions>>
     ELSE /\ member_transactions' = Append(member_transactions,
                 NewMemberTransaction(uid, p_book_id, now, p_due_days))
          /\ books' = DecrementCopies(books, p_book_id)
          /\ last' = Outcome("member_checkout_book",
                             Len(member_transactions) + 1, TRUE, "",
                             Len(member_transactions) + 1, 0)

\* variant of return_book: the status is set without a return_date
return_book_undated(p_transaction_id) ==
  /\ UNCHANGED <<now, procs, members, booksPage, paid_amount,
                 staffVars, borrowingPage, member_transactions>>
  /\ IF p_transaction_id \notin DOMAIN transactions
     THEN /\ last' = Outcome("return_book", p_transaction_id, FALSE,
                             "Transaction not found", 0, 0)
          /\ UNCHANGED <<books, transactions>>
     ELSE IF transactions[p_transaction_id].status = "returned"
     THEN /\ last' = Outcome("return_book", p_transaction_id, FALSE,
                             "Book already returned", 0, 0)
          /\ UNCHANGED <<books, transactions>>
     ELSE /\ transactions' =
               [transactions EXCEPT ![p_transaction_id].status = "returned"]
          /\ books' = IncrementCopies(books,
                                      transactions[p_transaction_id].book_id)
          /\ last' = Outcome("return_book", p_transaction_id, TRUE, "", 0, 0)

\* variant of return_book: no check that the book was already returned
return_book_unguarded(p_transaction_id) ==
  /\ UNCHANGED <<now, procs, members, booksPage, paid_amount,
                 staffVars, borrowingPage, member_transactions>>
  /\ IF p_transaction_id \notin DOMAIN transactions
     THEN /\ last' = Outcome("return_book", p_transaction_id, FALSE,
                             "Transaction not found", 0, 0)
          /\ UNCHANGED <<books, transactions>>
     ELSE LET run == UpdateTransaction(NoRun(transactions), p_transaction_id,
                       [transactions[p_transaction_id] EXCEPT
                          !.return_date = now, !.status = "returned"],
                       now)
          IN /\ transactions' = run.txns
             /\ books' = IncrementCopies(books,
                                         transactions[p_transaction_id].book_id)
             /\ last' = Outcome("return_book", p_transaction_id, TRUE, "", 0,
                                run.calcs)

return_book(p_transaction_id) ==
  /\ UNCHANGED <<now, procs, members, booksPage, paid_amount,
                 staffVars, borrowingPage, member_transactions>>
  /\ IF p_transaction_id \notin DOMAIN transactions
     THEN /\ last' = Outcome("return_book", p_transaction_id, FALSE,
                             "Transaction not found", 0, 0)
          /\ UNCHANGED <<books, transactions>>
     ELSE IF transactions[p_transaction_id].status = "returned"
     THEN /\ last' = Outcome("return_book", p_transaction_id, FALSE,
                             "Book already returned", 0, 0)
          /\ UNCHANGED <<books, transactions>>
     ELSE LET run == UpdateTransaction(NoRun(transactions), p_transaction_id,
                       [transactions[p_transaction_id] EXCEPT
                          !.return_date = now, !.status = "returned"],
                       now)
          IN /\ transactions' = run.txns
             /\ books' = IncrementCopies(books,
                                         transactions[p_transaction_id].book_id)
             /\ last' = Outcome("return_book", p_transaction_id, TRUE, "", 0,
                                run.calcs)

\* variant of calculate_fine: a loan with a fine is stored as overdue
calculate_fine_marking(p_transaction_id) ==
  /\ UNCHANGED <<now, procs, members, booksPage, paid_amount,
                 staffVars, borrowingPage, books, member_transactions>>
  /\ IF p_transaction_id \notin DOMAIN transactions
     THEN /\ last' = Outcome("calculate_fine", p_transaction_id, TRUE, "", 0, 0)
          /\ UNCHANGED transactions
     ELSE LET run == CalculateFineRun(NoRun(transactions), p_transaction_id, now)
              row == run.txns[p_transaction_id]
          IN /\ transactions' =
                  IF row.status = "borrowed" /\ run.value > 0
                  THEN [run.txns EXCEPT ![p_transaction_id].status = "overdue"]
                  ELSE run.txns
             /\ last' = Outcome("calculate_fine", p_transaction_id, TRUE, "",
                                run.value, run.calcs)

calculate_fine(p_transaction_id) ==
  /\ UNCHANGED <<now, procs, members, booksPage, paid_amount,
                 staffVars, borrowingPage, books, member_transactions>>
  /\ IF p_transaction_id \notin DOMAIN transactions
     THEN /\ last' = Outcome("calculate_fine", p_transaction_id, TRUE, "", 0, 0)
          /\ UNCHANGED transactions
     ELSE LET run == CalculateFineRun(NoRun(transactions), p_transaction_id, now)
          IN /\ transactions' = run.txns
             /\ last' = Outcome("calculate_fine", p_transaction_id, TRUE, "",
                                run.value, run.calcs)

\* variant of calculate_member_fine: a loan without a fine is closed
calculate_member_fine_closing(p_transaction_id) ==
  /\ UNCHANGED <<now, procs, members, booksPage, paid_amount,
                 staffVars, borrowingPage, books, transactions>>
  /\ IF p_transaction_id \notin DOMAIN member_transactions
     THEN /\ last' = Outcome("calculate_member_fine", p_transaction_id, TRUE,
                             "", 0, 0)
          /\ UNCHANGED member_transactions
     ELSE LET v_fine_amount ==
                FineAmount(member_transactions[p_transaction_id], now)
          IN /\ member_transactions' =
                  [member_transactions EXCEPT
                     ![p_transaction_id].fine_amount = v_fine_amount,
                     ![p_transaction_id].fine_paid = (v_fine_amount = 0)]
             /\ last' = Outcome("calculate_member_fine", p_transaction_id,
                                TRUE, "", v_fine_amount, 1)

calculate_member_fine(p_transaction_id) ==
  /\ UNCHANGED <<now, procs, members, booksPage, paid_amount,
                 staffVars, borrowingPage, books, transactions>>
  /\ IF p_transaction_id \notin DOMAIN member_transactions
     THEN /\ last' = Outcome("calculate_member_fine", p_transaction_id, TRUE,
                             "", 0, 0)
          /\ UNCHANGED member_transactions
     ELSE LET v_fine_amount ==
                FineAmount(member_transactions[p_transaction_id], now)
          IN /\ member_transactions' =
                  [member_transactions EXCEPT
                     ![p_transaction_id].fine_amount = v_fine_amount]
             /\ last' = Outcome("calculate_member_fine", p_transaction_id,
                                TRUE, "", v_fine_amount, 1)

\* variant of mark_fine_paid: only a fine that is owed can be paid
mark_fine_paid_owed(p_transaction_id) ==
  /\ UNCHANGED <<now, procs, members, booksPage, staffVars, borrowingPage,
                 books, member_transactions>>
  /\ last' = Outcome("mark_fine_paid", p_transaction_id, TRUE, "", 0, 0)
  /\ IF \/ p_transaction_id \notin DOMAIN transactions
        \/ transactions[p_transaction_id].fine_amount = 0
     THEN UNCHANGED <<transactions, paid_amount>>
     ELSE /\ transactions' =
               [transactions EXCEPT ![p_transaction_id].fine_paid = TRUE]
          /\ paid_amount' =
               (p_transaction_id :> transactions[p_transaction_id].fine_amount)
                 @@ paid_amount

mark_fine_paid(p_transaction_id) ==
  /\ UNCHANGED <<now, procs, members, booksPage, staffVars, borrowingPage,
                 books, member_transactions>>
  /\ last' = Outcome("mark_fine_paid", p_transaction_id, TRUE, "", 0, 0)
  /\ IF p_transaction_id \notin DOMAIN transactions
     THEN UNCHANGED <<transactions, paid_amount>>
     ELSE /\ transactions' =
               UpdateTransaction(NoRun(transactions), p_transaction_id,
                 [transactions[p_transaction_id] EXCEPT !.fine_paid = TRUE],
                 now).txns
          /\ paid_amount' =
               (p_transaction_id :> transactions[p_transaction_id].fine_amount)
                 @@ paid_amount

\* variant of UnpaidFinesCount: the fine of each loan is calculated at the
\* time of the count
UnpaidFinesCount_live(txns, member) ==
  Cardinality({i \in DOMAIN txns :
                 /\ txns[i].member_id = member
                 /\ FineAmount(txns[i], now) > 0
                 /\ txns[i].fine_paid = FALSE})

\* variant of UnpaidFinesCount: only loans marked overdue are counted
UnpaidFinesCount_overdue(txns, member) ==
  Cardinality({i \in DOMAIN txns :
                 /\ txns[i].member_id = member
                 /\ txns[i].status = "overdue"
                 /\ txns[i].fine_amount > 0
                 /\ txns[i].fine_paid = FALSE})

\* SELECT COUNT(*) FROM transactions WHERE member_id = v_member_id
\* AND fine_amount > 0 AND fine_paid = false
UnpaidFinesCount(txns, member) ==
  Cardinality({i \in DOMAIN txns :
                 /\ txns[i].member_id = member
                 /\ txns[i].fine_amount > 0
                 /\ txns[i].fine_paid = FALSE})

UnpaidFinesMessage ==
  "Member has unpaid fines. Please clear fines before renewing."

\* variant of renew_book: the status of the transaction is not checked
renew_book_any(p_transaction_id, p_extend_days) ==
  /\ UNCHANGED <<now, procs, members, booksPage, paid_amount,
                 staffVars, borrowingPage, books, member_transactions>>
  /\ IF p_transaction_id \notin DOMAIN transactions
     THEN /\ last' = Outcome("renew_book", p_transaction_id, FALSE,
                             "Transaction not found", NULL, 0)
          /\ UNCHANGED transactions
     ELSE LET row == transactions[p_transaction_id] IN
          IF UnpaidFinesCount(transactions, row.member_id) > 0
          THEN /\ last' = Outcome("renew_book", p_transaction_id, FALSE,
                                  UnpaidFinesMessage, NULL, 0)
               /\ UNCHANGED transactions
          ELSE LET run == UpdateTransaction(NoRun(transactions),
                            p_transaction_id,
                            [row EXCEPT !.due_date = @ + Days(p_extend_days),
                                        !.status = "borrowed"],
                            now)
               IN /\ transactions' = run.txns
                  /\ last' = Outcome("renew_book", p_transaction_id, TRUE,
                                     "Book renewed successfully",
                                     run.txns[p_transaction_id].due_date, 0)

renew_book(p_transaction_id, p_extend_days) ==
  /\ UNCHANGED <<now, procs, members, booksPage, paid_amount,
                 staffVars, borrowingPage, books, member_transactions>>
  /\ IF p_transaction_id \notin DOMAIN transactions
     THEN /\ last' = Outcome("renew_book", p_transaction_id, FALSE,
                             "Transaction not found", NULL, 0)
          /\ UNCHANGED transactions
     ELSE LET row == transactions[p_transaction_id] IN
          IF row.status # "borrowed" /\ row.status # "overdue"
          THEN /\ last' = Outcome("renew_book", p_transaction_id, FALSE,
                          "Book must be currently borrowed to renew", NULL, 0)
               /\ UNCHANGED transactions
          ELSE IF UnpaidFinesCount(transactions, row.member_id) > 0
          THEN /\ last' = Outcome("renew_book", p_transaction_id, FALSE,
                                  UnpaidFinesMessage, NULL, 0)
               /\ UNCHANGED transactions
          ELSE LET run == UpdateTransaction(NoRun(transactions),
                            p_transaction_id,
                            [row EXCEPT !.due_date = @ + Days(p_extend_days),
                                        !.status = "borrowed"],
                            now)
               IN /\ transactions' = run.txns
                  /\ last' = Outcome("renew_book", p_transaction_id, TRUE,
                                     "Book renewed successfully",
                                     run.txns[p_transaction_id].due_date, 0)

\* ------------------------------------------------------------- members
\* EXTRACT(YEAR FROM NOW()), counted from the year of time 0
Year(t) == t \div Days(DaysPerYear)

\* LPAD(n::TEXT, 4, '0') read as a number: a longer text is cut to its first
\* four digits
RECURSIVE Lpad(_)
Lpad(n) == IF n < SeqLimit THEN n ELSE Lpad(n \div 10)

\* 'LIB-' || year || '-' || sequence number, as one number
MemberId(year, n) == year * SeqLimit + Lpad(n)

\* variant of generate_member_id: the id is returned without looking it up
generate_member_id_unchecked(mems, t) ==
  MemberId(Year(t), Cardinality(mems) + 1)

\* generate_member_id on the table mems at time t: the id it returns, or NULL
\* when the id it builds exists, because the loop then builds the same id
\* again and never returns
generate_member_id(mems, t) ==
  LET new_id == MemberId(Year(t), Cardinality(mems) + 1)
      id_exists == new_id \in mems
  IN IF ~id_exists THEN new_id ELSE NULL

\* Members.handleSubmit for a new member: the id is generated and the row is
\* inserted; without an id the page reports the error and inserts nothing
MembersHandleSubmit ==
  LET memberIdData == generate_member_id(members, now) IN
  /\ UNCHANGED <<now, procs, booksPage, paid_amount, staffVars, borrowingPage,
                 books, transactions,
                 member_transactions>>
  /\ IF memberIdData = NULL
     THEN /\ last' = Outcome("generate_member_id", 0, FALSE,
                             "canceling statement due to statement timeout",
                             NULL, 0)
          /\ UNCHANGED members
     ELSE /\ last' = Outcome("generate_member_id", 0, TRUE, "",
                             memberIdData, 0)
          /\ members' = members \cup {memberIdData}

\* Members.handleDelete of the row with this member_id
MembersHandleDelete(member_id) ==
  /\ member_id \in members
  /\ members' = members \ {member_id}
  /\ last' = Outcome("delete_member", 0, TRUE, "", member_id, 0)
  /\ UNCHANGED <<now, procs, booksPage, paid_amount, staffVars, borrowingPage,
                 books, transactions,
                 member_transactions>>

\* ---------------------------------------------------------- Books page
\* the statuses the runs choose in the form, of the four it offers
FormStatuses == {"available", "damaged"}

\* editingBook = null; of a book being edited the page reads the id and the
\* available_copies it had in the list
NoEditingBook == [id |-> NoBook, available_copies |-> 0]

\* formData after resetForm, the fields that reach the counters and the status
EmptyFormData == [total_copies |-> 1, status |-> "available"]

\* the Books page after it mounted: fetchBooks has loaded the list, no dialog
\* is open
MountedBooksPage(bks) ==
  [books |-> bks, isDialogOpen |-> FALSE, editingBook |-> NoEditingBook,
   formData |-> EmptyFormData]

\* the dialog is opened with the Add Book button
BooksOpenDialog ==
  /\ ~booksPage.isDialogOpen
  /\ booksPage' = [booksPage EXCEPT !.isDialogOpen = TRUE]
  /\ UNCHANGED <<now, procs, members, paid_amount, staffVars, borrowingPage,
                 books, transactions,
                 member_transactions, last>>

\* Books.handleEdit of a row of the list the page shows
BooksHandleEdit(id) ==
  /\ ~booksPage.isDialogOpen
  /\ id \in DOMAIN booksPage.books
  /\ booksPage' =
       [booksPage EXCEPT
          !.editingBook =
             [id |-> id,
              available_copies |-> booksPage.books[id].available_copies],
          !.formData = [total_copies |-> booksPage.books[id].total_copies,
                        status |-> booksPage.books[id].status],
          !.isDialogOpen = TRUE]
  /\ UNCHANGED <<now, procs, members, paid_amount, staffVars, borrowingPage,
                 books, transactions,
                 member_transactions, last>>

\* the Total Copies and Status inputs of the form
BooksSetFormData(total_copies, status) ==
  /\ booksPage.isDialogOpen
  /\ booksPage' = [booksPage EXCEPT
                     !.formData = [total_copies |-> total_copies,
                                   status |-> status]]
  /\ UNCHANGED <<now, procs, members, paid_amount, staffVars, borrowingPage,
                 books, transactions,
                 member_transactions, last>>

\* Books.handleSubmit: bookData is written to the edited row, or inserted as
\* a new row under the id new_id; then the dialog closes, the form is reset
\* and fetchBooks reloads the list
BooksHandleSubmit(new_id) ==
  LET editingBook == booksPage.editingBook
      bookData ==
        [total_copies |-> booksPage.formData.total_copies,
         available_copies |->
           IF editingBook # NoEditingBook
           THEN editingBook.available_copies
           ELSE booksPage.formData.total_copies,
         status |-> booksPage.formData.status]
  IN
  /\ booksPage.isDialogOpen
  /\ IF editingBook # NoEditingBook
     THEN books' = [b \in DOMAIN books |->
                     IF b = editingBook.id THEN bookData ELSE books[b]]
     ELSE /\ new_id \notin DOMAIN books
          /\ books' = [b \in DOMAIN books \cup {new_id} |->
                         IF b = new_id THEN bookData ELSE books[b]]
  /\ booksPage' = MountedBooksPage(books')
  /\ last' = Outcome("Books.handleSubmit", 0, TRUE,
                     "", bookData.available_copies, 0)
  /\ UNCHANGED <<now, procs, members, paid_amount, staffVars, borrowingPage,
                 transactions,
                 member_transactions>>

\* the database clock advances to the same time of the next year
TickYear ==
  /\ now' = now + Days(DaysPerYear)
  /\ UNCHANGED <<books, transactions, member_transactions, last, procs,
                 members, booksPage, paid_amount, staffVars, borrowingPage>>

\* the database clock advances
Tick ==
  /\ now' = now + 1
  /\ UNCHANGED <<books, transactions, member_transactions, last, procs,
                 members, booksPage, paid_amount, staffVars, borrowingPage>>

\* ------------------------------------------------ manage-staff endpoint
\* auth.users ids.  createUser gives a new account an id no account has.
Admin == "admin"
NewUserIds == <<"u2", "u3", "u4", "u5">>
AllUserIds == {Admin} \cup Users \cup {NewUserIds[i] : i \in DOMAIN NewUserIds}

\* the Authorization header of a request: absent, a token no session has, or
\* the token of the session of a user
NoAuthorization == "none"
InvalidToken == "invalid"
Authorizations == {NoAuthorization, InvalidToken} \cup AllUserIds

AdminEmail == "admin@librarian-pro.test"
Emails == {"staff@librarian-pro.test", AdminEmail}
FullNames == {"", "Ann"}          \* "" is a field the request leaves out
Phones == {"555"}

\* the calls of the handler to the backend that the backend can fail, and the
\* sets of them that fail in one request: a call fails only if it is reached
BackendCalls == {"createUser", "roleUpdate", "profileUpsert", "profileUpdate",
                 "deleteRoles", "deleteUser"}
Failures ==
  {{}, {"createUser"}, {"roleUpdate"}, {"roleUpdate", "deleteUser"},
   {"profileUpsert"}, {"profileUpsert", "profileUpdate"},
   {"profileUpsert", "profileUpdate", "deleteRoles"},
   {"profileUpsert", "profileUpdate", "deleteUser"},
   {"profileUpsert", "profileUpdate", "deleteRoles", "deleteUser"}}

\* the three tables as one value, for the steps of the handler
StaffState == [users |-> users, user_roles |-> user_roles,
               member_profiles |-> member_profiles]

\* trigger on_auth_user_created_member: the role and profile of a new account
handle_new_member_signup(st, id, email, full_name, phone) ==
  IF email = AdminEmail
  THEN [st EXCEPT !.user_roles = @ \cup {<<id, "admin">>},
                  !.member_profiles =
                     (id :> [full_name |-> "System Admin", phone |-> ""]) @@ @]
  ELSE [st EXCEPT !.user_roles = @ \cup {<<id, "member">>},
                  !.member_profiles =
                     (id :> [full_name |-> IF full_name = "" THEN "Member"
                                           ELSE full_name,
                             phone |-> phone]) @@ @]

\* auth.admin.createUser: the INSERT into auth.users and its trigger
createUser(st, id, email, full_name, phone) ==
  handle_new_member_signup([st EXCEPT !.users = @ \cup {id}],
                           id, email, full_name, phone)

\* DELETE FROM user_roles WHERE user_id = id
DeleteRoles(st, id) ==
  [st EXCEPT !.user_roles = {r \in @ : r[1] # id}]

\* auth.admin.deleteUser: user_roles and member_profiles reference auth.users
\* ON DELETE CASCADE
deleteUser(st, id) ==
  [DeleteRoles(st, id) EXCEPT
     !.users = @ \ {id},
     !.member_profiles = [u \in DOMAIN @ \ {id} |-> @[u]]]

\* UPDATE user_roles SET role = 'staff' WHERE user_id = id
RoleUpdate(st, id) ==
  [st EXCEPT !.user_roles =
     {r \in @ : r[1] # id} \cup {<<id, "staff">> : r \in {q \in @ : q[1] = id}}]

\* the UPDATE fails when it would make two rows of the user equal:
\* UNIQUE (user_id, role)
RoleUpdateConflicts(st, id) ==
  Cardinality({r \in st.user_roles : r[1] = id}) > 1

\* member_profiles upsert on user_id: INSERT ... ON CONFLICT (user_id) DO UPDATE
ProfileUpsert(st, id, full_name, phone) ==
  [st EXCEPT !.member_profiles =
     (id :> [full_name |-> full_name, phone |-> phone]) @@ @]

\* UPDATE member_profiles SET ... WHERE user_id = id
ProfileUpdate(st, id, full_name, phone) ==
  IF id \in DOMAIN st.member_profiles
  THEN ProfileUpsert(st, id, full_name, phone)
  ELSE st

\* auth.getUser(token): the user of the session the token belongs to
getUser(token) ==
  IF token \in users THEN token ELSE NoUser

\* .from('user_roles').select('role').eq('user_id', id).single(): the role
\* when exactly one row matches, an error otherwise
SingleRole(id) ==
  LET rows == {r \in user_roles : r[1] = id}
  IN IF Cardinality(rows) = 1 THEN (CHOOSE r \in rows : TRUE)[2] ELSE ""

\* the answer of the endpoint
Response(status, error, staff, user_id, cleanup) ==
  [status |-> status, error |-> error, staff |-> staff, user_id |-> user_id,
   cleanup |-> cleanup]

\* variant of Authorize: any signed-in user may manage staff
Authorize_signedin(authorization) ==
  IF authorization = NoAuthorization
  THEN Response(401, "No authorization header", {}, "", "none")
  ELSE IF getUser(authorization) = NoUser
  THEN Response(401, "Unauthorized", {}, "", "none")
  ELSE Response(200, "", {}, "", "none")

\* the gate every request passes before its action is read: the answer that
\* refuses the request, or status 200 when the caller is an admin
Authorize(authorization) ==
  IF authorization = NoAuthorization
  THEN Response(401, "No authorization header", {}, "", "none")
  ELSE IF getUser(authorization) = NoUser
  THEN Response(401, "Unauthorized", {}, "", "none")
  ELSE IF SingleRole(getUser(authorization)) # "admin"
  THEN Response(403, "Only admins can manage staff", {}, "", "none")
  ELSE Response(200, "", {}, "", "none")

\* the handler's writes become the tables; the answer is kept with the
\* Authorization header and the action of the request it answers
Answered(authorization, action, resp) ==
  [authorization |-> authorization, action |-> action] @@ resp

Answer(authorization, action, st, resp) ==
  /\ users' = st.users
  /\ user_roles' = st.user_roles
  /\ member_profiles' = st.member_profiles
  /\ response' = Answered(authorization, action, resp)

StaffFrame ==
  UNCHANGED <<books, transactions, member_transactions, now, last, procs,
              members, booksPage, paid_amount, borrowingPage>>

\* case 'list': the profiles of the users that have the role staff
ListStaff ==
  LET staffUserIds == {r[1] : r \in {q \in user_roles : q[2] = "staff"}}
  IN Response(200, "", {<<u, member_profiles[u]>> :
                          u \in staffUserIds \cap DOMAIN member_profiles},
              "", "none")

\* variant of CreateStaffSteps: a failed profile assignment is not undone
CreateStaffSteps_keep(st, id, full_name, phone, fails) ==
  LET roleFails == "roleUpdate" \in fails \/ RoleUpdateConflicts(st, id)
      withRole == RoleUpdate(st, id)
      profileFails == {"profileUpsert", "profileUpdate"} \subseteq fails
      withProfile == IF "profileUpsert" \notin fails
                     THEN ProfileUpsert(withRole, id, full_name, phone)
                     ELSE ProfileUpdate(withRole, id, full_name, phone)
      undone(s) == IF "deleteUser" \in fails THEN s ELSE deleteUser(s, id)
      cleanup == IF "deleteUser" \in fails THEN "failed" ELSE "done"
  IN IF roleFails
     THEN [st |-> undone(st),
           resp |-> Response(500, "role", {}, "", cleanup)]
     ELSE IF profileFails
     THEN [st |-> withRole, resp |-> Response(500, "profile", {}, "", cleanup)]
     ELSE [st |-> withProfile, resp |-> Response(200, "", {}, id, "none")]

\* case 'create' after createUser succeeded: the role, then the profile, with
\* the compensating deletes; fails is the set of backend calls that fail
CreateStaffSteps(st, id, full_name, phone, fails) ==
  LET \* ON CONFLICT (user_id) has no unique constraint on user_roles to match:
      \* the upsert of the role is an error, the UPDATE is what assigns it
      roleFails == "roleUpdate" \in fails \/ RoleUpdateConflicts(st, id)
      withRole == RoleUpdate(st, id)
      profileFails == {"profileUpsert", "profileUpdate"} \subseteq fails
      withProfile == IF "profileUpsert" \notin fails
                     THEN ProfileUpsert(withRole, id, full_name, phone)
                     ELSE ProfileUpdate(withRole, id, full_name, phone)
      undone(s) == IF "deleteUser" \in fails THEN s ELSE deleteUser(s, id)
      cleanup == IF "deleteUser" \in fails THEN "failed" ELSE "done"
  IN IF roleFails
     THEN [st |-> undone(st),
           resp |-> Response(500, "role", {}, "", cleanup)]
     ELSE IF profileFails
     THEN [st |-> undone(IF "deleteRoles" \in fails THEN withRole
                         ELSE DeleteRoles(withRole, id)),
           resp |-> Response(500, "profile", {}, "",
                             IF "deleteRoles" \in fails THEN "failed"
                             ELSE cleanup)]
     ELSE [st |-> withProfile, resp |-> Response(200, "", {}, id, "none")]

\* case 'create'
CreateStaff(id, email, full_name, phone, fails) ==
  IF email = "" \/ full_name = ""
  THEN [st |-> StaffState,
        resp |-> Response(400, "Email, password, and full name are required",
                          {}, "", "none")]
  ELSE IF "createUser" \in fails
  THEN [st |-> StaffState, resp |-> Response(400, "createUser", {}, "", "none")]
  ELSE CreateStaffSteps(createUser(StaffState, id, email, full_name, phone),
                        id, full_name, phone, fails)

\* case 'update': the profile of user_id
UpdateStaff(user_id, full_name, phone) ==
  IF user_id = ""
  THEN [st |-> StaffState,
        resp |-> Response(400, "User ID is required", {}, "", "none")]
  ELSE [st |-> ProfileUpdate(StaffState, user_id, full_name, phone),
        resp |-> Response(200, "", {}, "", "none")]

\* case 'delete': the user, and by cascade the user's roles and profile
DeleteStaff(user_id) ==
  IF user_id = ""
  THEN [st |-> StaffState,
        resp |-> Response(400, "User ID is required", {}, "", "none")]
  ELSE IF user_id \notin users
  THEN [st |-> StaffState, resp |-> Response(500, "deleteUser", {}, "", "none")]
  ELSE [st |-> deleteUser(StaffState, user_id),
        resp |-> Response(200, "", {}, "", "none")]

\* the id createUser gives the new account
NewUserId ==
  NewUserIds[CHOOSE i \in DOMAIN NewUserIds :
               /\ NewUserIds[i] \notin users
               /\ \A j \in 1..(i - 1) : NewUserIds[j] \in users]

\* the handler of the endpoint: the gate, then the action of the request
ManageStaff(authorization, action, data, fails) ==
  /\ StaffFrame
  /\ LET gate == Authorize(authorization)
     IN IF gate.status # 200
        THEN Answer(authorization, action, StaffState, gate)
        ELSE IF action = "list"
        THEN Answer(authorization, action, StaffState, ListStaff)
        ELSE IF action = "create"
        THEN LET r == CreateStaff(NewUserId, data.email, data.full_name,
                                  data.phone, fails)
             IN Answer(authorization, action, r.st, r.resp)
        ELSE IF action = "update"
        THEN LET r == UpdateStaff(data.user_id, data.full_name, data.phone)
             IN Answer(authorization, action, r.st, r.resp)
        ELSE IF action = "delete"
        THEN LET r == DeleteStaff(data.user_id)
             IN Answer(authorization, action, r.st, r.resp)
        ELSE Answer(authorization, action, StaffState,
                    Response(400, "Invalid action", {}, "", "none"))

\* ------------------------------------------------------- Borrowing page
\* isPast(date) of date-fns at the time t
isPast(date, t) == date < t

\* fetchTransactions: the rows of transactions as the page shows them, a
\* borrowed row past its due_date with the status overdue
fetchTransactions(txns, t) ==
  [id \in DOMAIN txns |->
     IF txns[id].status = "borrowed" /\ isPast(txns[id].due_date, t)
     THEN [txns[id] EXCEPT !.status = "overdue"]
     ELSE txns[id]]

\* the effect on [transactions]: the ids calculateFine is called for
FineEffect(shown) ==
  {id \in DOMAIN shown :
     shown[id].status = "overdue" /\ shown[id].fine_amount = 0}

\* the page before it is mounted, and as useState and the mount effect leave it
UnmountedBorrowingPage == [transactions |-> <<>>, loading |-> FALSE, calls |-> {}]
MountedBorrowingPage == [transactions |-> <<>>, loading |-> TRUE, calls |-> {}]

\* the page is opened: the mount effect calls fetchData
BorrowingMount ==
  /\ borrowingPage = UnmountedBorrowingPage
  /\ borrowingPage' = MountedBorrowingPage
  /\ UNCHANGED <<books, transactions, member_transactions, now, last, procs,
                 members, booksPage, paid_amount, staffVars>>

\* fetchData completes: setTransactions, setLoading(false), and the effect on
\* [transactions] calls calculateFine
BorrowingFetchData ==
  /\ borrowingPage.loading
  /\ LET shown == fetchTransactions(transactions, now)
     IN borrowingPage' = [transactions |-> shown, loading |-> FALSE,
                          calls |-> borrowingPage.calls \cup FineEffect(shown)]
  /\ UNCHANGED <<books, transactions, member_transactions, now, last, procs,
                 members, booksPage, paid_amount, staffVars>>

\* calculateFine(transactionId): the rpc calculate_fine, then fetchData starts
BorrowingCalculateFine(transactionId) ==
  /\ transactionId \in borrowingPage.calls
  /\ LET run == CalculateFineRun(NoRun(transactions), transactionId, now)
     IN /\ transactions' = run.txns
        /\ last' = Outcome("calculate_fine", transactionId, TRUE, "",
                           run.value, run.calcs)
  /\ borrowingPage' = [borrowingPage EXCEPT !.loading = TRUE,
                                            !.calls = @ \ {transactionId}]
  /\ UNCHANGED <<books, member_transactions, now, procs, members, booksPage,
                 paid_amount, staffVars>>

\* ------------------------------------------------------- initial states
Sessions == {"s1", "s2"}

Idle == [pc |-> "idle", op |-> "", who |-> "", book |-> NoBook, days |-> 0,
         txn |-> 0, started |-> 0]

\* a row of books as Books.handleSubmit inserts it
NewBook(total) ==
  [total_copies |-> total, available_copies |-> total, status |-> "available"]

\* the catalogue the runs start from: one single-copy book, one with MaxCopies
InitialCopies == [b \in Books |-> IF b = "b1" THEN 1 ELSE MaxCopies]

InitRest ==
  /\ transactions = <<>>
  /\ member_transactions = <<>>
  /\ now = 0
  /\ last = Outcome("", 0, TRUE, "", 0, 0)
  /\ procs = [s \in Sessions |-> Idle]
  /\ paid_amount = <<>>
  /\ users = {Admin} \cup Users
  /\ user_roles = {<<Admin, "admin">>} \cup {<<u, "member">> : u \in Users}
  /\ member_profiles =
       [u \in {Admin} \cup Users |->
          [full_name |-> IF u = Admin THEN "System Admin" ELSE "Member",
           phone |-> ""]]
  /\ response = Answered(NoAuthorization, "", Response(0, "", {}, "", "none"))
  /\ borrowingPage = UnmountedBorrowingPage

\* the rows of members the loans refer to, added through the Members page
\* one after the other
InitialMembers == {MemberId(Year(0), n) : n \in 1..Cardinality(Members)}

Init ==
  /\ books = [b \in Books |-> NewBook(InitialCopies[b])]
  /\ booksPage = MountedBooksPage(books)
  /\ members = InitialMembers
  /\ InitRest

\* ------------------------------------------------- calls and their inputs
TxnIds == 1..MaxTxns
MemberTxnIds == 1..MaxMemberTxns
BookArgs == Books \cup {NoBook}

CheckoutBy(ms, ds) ==
  /\ Len(transactions) < MaxTxns
  /\ \E m \in ms, b \in BookArgs, d \in ds : checkout_book(m, b, d)

\* one member borrows, for short loan periods
Checkout == CheckoutBy({"m1"}, DueDaysSet)

\* the Borrowing page: loans of LoanDays days
CheckoutDefault == CheckoutBy({"m1"}, {LoanDays})

\* each book is lent at most once
CheckoutOnceBy(ds) ==
  \E b \in BookArgs, d \in ds :
    /\ \A i \in DOMAIN transactions : transactions[i].book_id # b
    /\ checkout_book("m1", b, d)

CheckoutOnce == CheckoutOnceBy(DueDaysSet)

CheckoutOnceDefault == CheckoutOnceBy({LoanDays})

\* the member's Books page: loans of LoanDays days
MemberCheckout ==
  /\ Len(member_transactions) < MaxMemberTxns
  /\ \E u \in Users \cup {NoUser}, b \in BookArgs :
       member_checkout_book(u, b, LoanDays)

Return == \E t \in TxnIds : return_book(t)

CalculateFine == \E t \in TxnIds : calculate_fine(t)

CalculateMemberFine == \E t \in MemberTxnIds : calculate_member_fine(t)

MarkFinePaid == \E t \in TxnIds : mark_fine_paid(t)

RenewUpTo(horizon) ==
  \E t \in TxnIds, e \in ExtendDaysSet :
    /\ t \in DOMAIN transactions => transactions[t].due_date <= horizon
    /\ renew_book(t, e)

Renew == RenewUpTo(MaxNow)

Advance == now < MaxNow /\ Tick

\* a request to the manage-staff endpoint, from any caller; a create while
\* fewer than MaxStaff of the accounts it made exist
StaffActions == {"list", "create", "update", "delete", "other"}
\* the user_id of an update or delete: none, or one createUser gave
StaffTargets == {""} \cup (AllUserIds \ ({Admin} \cup Users))
NoData == [email |-> "", full_name |-> "", phone |-> "", user_id |-> ""]
StaffData(action) ==
  IF action = "create"
  THEN {[NoData EXCEPT !.email = e, !.full_name = n, !.phone = ph] :
          e \in Emails, n \in FullNames, ph \in Phones}
  ELSE IF action = "update"
  THEN {[NoData EXCEPT !.user_id = u, !.full_name = n, !.phone = ph] :
          u \in StaffTargets, n \in FullNames \ {""}, ph \in Phones}
  ELSE IF action = "delete"
  THEN {[NoData EXCEPT !.user_id = u] : u \in StaffTargets}
  ELSE {NoData}

StaffRequest ==
  \E authorization \in {NoAuthorization, InvalidToken} \cup users,
     action \in StaffActions :
    \E data \in StaffData(action),
       fails \in IF action = "create" THEN Failures ELSE {{}} :
      /\ action = "create" =>
           Cardinality(users \ ({Admin} \cup Users)) < MaxStaff
      /\ ManageStaff(authorization, action, data, fails)

\* ---------------------------------------------------------- specifications
\* Spec: loans from checkout to return, fines calculated on the way, the
\* procedures called one at a time over MaxNow ticks
Next ==
  \/ Checkout
  \/ Return
  \/ CalculateFine
  \/ Advance

Spec == Init /\ [][Next]_vars

\* SpecInv: the procedures that move copies, called one at a time, from any
\* catalogue with 0 <= available_copies <= total_copies
BookRows ==
  {[total_copies |-> n, available_copies |-> a,
    status |-> IF a = 0 THEN "borrowed" ELSE "available"] :
     n \in 1..MaxCopies, a \in 0..MaxCopies}

InitInv ==
  /\ books \in [Books -> {r \in BookRows : r.available_copies <= r.total_copies}]
  /\ booksPage = MountedBooksPage(books)
  /\ members = InitialMembers
  /\ InitRest

NextInv ==
  \/ CheckoutDefault
  \/ MemberCheckout
  \/ Return

SpecInv == InitInv /\ [][NextInv]_vars

\* SpecRenew: loans that stay out: fines accrue, are paid, and loans are
\* renewed
NextRenew ==
  \/ Checkout
  \/ CalculateFine
  \/ MarkFinePaid
  \/ Renew
  \/ Advance

SpecRenew == Init /\ [][NextRenew]_vars

\* SpecFine: one loan followed over FineDays days and a tick
FirstCheckout ==
  /\ transactions = <<>>
  /\ \E b \in Books, d \in DueDaysSet : checkout_book("m1", b, d)

AdvanceFine == now <= Days(FineDays) /\ Tick

NextFine ==
  \/ FirstCheckout
  \/ Return
  \/ CalculateFine
  \/ AdvanceFine

SpecFine == Init /\ [][NextFine]_vars

\* SpecMembers: the Members page adds and deletes members, starting without
\* members and without loans, over MaxYears years
InitMembers ==
  /\ books = [b \in Books |-> NewBook(InitialCopies[b])]
  /\ booksPage = MountedBooksPage(books)
  /\ members = {}
  /\ InitRest

AddMember == Cardinality(members) < MaxMembers /\ MembersHandleSubmit

DeleteMember == \E m \in members : MembersHandleDelete(m)

NewYear == Year(now) < MaxYears /\ TickYear

NextMembers ==
  \/ AddMember
  \/ DeleteMember
  \/ NewYear

SpecMembers == InitMembers /\ [][NextMembers]_vars

\* SpecSelf: members borrow for themselves, for short loan periods, and the
\* fines of their loans are calculated, over MaxNow ticks
Callers == Users \cup {NoUser}

MemberCheckoutShort ==
  /\ Len(member_transactions) < MaxMemberTxns
  /\ \E u \in Callers, b \in BookArgs, d \in DueDaysSet :
       member_checkout_book(u, b, d)

NextSelf ==
  \/ MemberCheckoutShort
  \/ CalculateMemberFine
  \/ Advance

SpecSelf == Init /\ [][NextSelf]_vars

\* SpecBooks: staff add and edit books on the Books page while books are
\* checked out and returned; the catalogue starts with one book and each
\* book is lent at most once
InitBooks ==
  /\ books = [b \in {"b1"} |-> NewBook(1)]
  /\ booksPage = MountedBooksPage(books)
  /\ members = InitialMembers
  /\ InitRest

OpenDialog == BooksOpenDialog

EditBook == \E b \in Books : BooksHandleEdit(b)

SetFormData ==
  \E n \in 1..MaxCopies, st \in FormStatuses : BooksSetFormData(n, st)

SubmitBook == \E b \in Books : BooksHandleSubmit(b)

NextBooks ==
  \/ OpenDialog
  \/ EditBook
  \/ SetFormData
  \/ SubmitBook
  \/ CheckoutOnceDefault
  \/ Return

SpecBooks == InitBooks /\ [][NextBooks]_vars

\* SpecPaid: one loan that stays out over FineDays days and a tick, its fine
\* calculated and marked paid on the way
NextPaid ==
  \/ FirstCheckout
  \/ CalculateFine
  \/ MarkFinePaid
  \/ AdvanceFine

SpecPaid == Init /\ [][NextPaid]_vars

\* SpecEngine: every procedure of the engine that acts on transactions,
\* called one at a time in any order over MaxNow ticks; each book is lent
\* at most once
NextEngine ==
  \/ CheckoutOnce
  \/ Return
  \/ CalculateFine
  \/ MarkFinePaid
  \/ Renew
  \/ Advance

SpecEngine == Init /\ [][NextEngine]_vars

\* SpecConc: two sessions call checkout_book, member_checkout_book and
\* return_book at the same time.  Each call is one database transaction at
\* isolation level READ COMMITTED: its SELECT reads the rows committed so
\* far, its UPDATEs act on the latest committed row versions, and its writes
\* become visible together at commit.  NOW() is the time the call started;
\* the clock stands still in this specification.
InFlight(op) == Cardinality({s \in Sessions : procs[s].pc = "checked" /\ procs[s].op = op})

Raise(op, id, msg) ==
  /\ last' = Outcome(op, id, FALSE, msg, 0, 0)
  /\ UNCHANGED procs

\* checkout_book up to and including its availability checks
BeginCheckout(s, p_member_id, p_book_id, p_due_days) ==
  /\ procs[s].pc = "idle"
  /\ UNCHANGED <<books, transactions, member_transactions, now,
                 members, booksPage, paid_amount, staffVars, borrowingPage>>
  /\ IF p_book_id \notin DOMAIN books
     THEN Raise("checkout_book", 0, "Book not found")
     ELSE IF books[p_book_id].available_copies <= 0
     THEN Raise("checkout_book", 0, "No available copies of this book")
     ELSE /\ procs' = [procs EXCEPT ![s] =
                 [pc |-> "checked", op |-> "checkout_book", who |-> p_member_id,
                  book |-> p_book_id, days |-> p_due_days, txn |-> 0,
                  started |-> now]]
          /\ UNCHANGED last

\* member_checkout_book up to and including its availability checks
BeginMemberCheckout(s, uid, p_book_id, p_due_days) ==
  /\ procs[s].pc = "idle"
  /\ UNCHANGED <<books, transactions, member_transactions, now,
                 members, booksPage, paid_amount, staffVars, borrowingPage>>
  /\ IF uid = NoUser
     THEN Raise("member_checkout_book", 0, "User not authenticated")
     ELSE IF p_book_id \notin DOMAIN books
     THEN Raise("member_checkout_book", 0, "Book not found")
     ELSE IF books[p_book_id].available_copies <= 0
     THEN Raise("member_checkout_book", 0, "No available copies of this book")
     ELSE /\ procs' = [procs EXCEPT ![s] =
                 [pc |-> "checked", op |-> "member_checkout_book", who |-> uid,
                  book |-> p_book_id, days |-> p_due_days, txn |-> 0,
                  started |-> now]]
          /\ UNCHANGED last

\* the INSERT and the UPDATE of books of checkout_book, and its commit
FinishCheckout(s) ==
  LET c == procs[s] IN
  /\ c.pc = "checked" /\ c.op = "checkout_book"
  /\ transactions' = Append(transactions,
                            NewTransaction(c.who, c.book, c.started, c.days))
  /\ books' = DecrementCopies(books, c.book)
  /\ last' = Outcome("checkout_book", Len(transactions) + 1, TRUE, "",
                     Len(transactions) + 1, 0)
  /\ procs' = [procs EXCEPT ![s] = Idle]
  /\ UNCHANGED <<member_transactions, now, members, booksPage, paid_amount, staffVars, borrowingPage>>

\* the INSERT and the UPDATE of books of member_checkout_book, and its commit
FinishMemberCheckout(s) ==
  LET c == procs[s] IN
  /\ c.pc = "checked" /\ c.op = "member_checkout_book"
  /\ member_transactions' = Append(member_transactions,
                       NewMemberTransaction(c.who, c.book, c.started, c.days))
  /\ books' = DecrementCopies(books, c.book)
  /\ last' = Outcome("member_checkout_book", Len(member_transactions) + 1,
                     TRUE, "", Len(member_transactions) + 1, 0)
  /\ procs' = [procs EXCEPT ![s] = Idle]
  /\ UNCHANGED <<transactions, now, members, booksPage, paid_amount, staffVars, borrowingPage>>

\* return_book up to and including its status check
BeginReturn(s, p_transaction_id) ==
  /\ procs[s].pc = "idle"
  /\ UNCHANGED <<books, transactions, member_transactions, now,
                 members, booksPage, paid_amount, staffVars, borrowingPage>>
  /\ IF p_transaction_id \notin DOMAIN transactions
     THEN Raise("return_book", p_transaction_id, "Transaction not found")
     ELSE IF transactions[p_transaction_id].status = "returned"
     THEN Raise("return_book", p_transaction_id, "Book already returned")
     ELSE /\ procs' = [procs EXCEPT ![s] =
                 [pc |-> "checked", op |-> "return_book", who |-> "",
                  book |-> transactions[p_transaction_id].book_id, days |-> 0,
                  txn |-> p_transaction_id, started |-> now]]
          /\ UNCHANGED last

\* the two UPDATEs of return_book, the row trigger, and its commit
FinishReturn(s) ==
  LET c == procs[s]
      run == UpdateTransaction(NoRun(transactions), c.txn,
               [transactions[c.txn] EXCEPT
                  !.return_date = c.started, !.status = "returned"],
               c.started)
  IN
  /\ c.pc = "checked" /\ c.op = "return_book"
  /\ transactions' = run.txns
  /\ books' = IncrementCopies(books, c.book)
  /\ last' = Outcome("return_book", c.txn, TRUE, "", 0, run.calcs)
  /\ procs' = [procs EXCEPT ![s] = Idle]
  /\ UNCHANGED <<member_transactions, now, members, booksPage, paid_amount, staffVars, borrowingPage>>

ConcCheckout ==
  /\ Len(transactions) + InFlight("checkout_book") < MaxTxns
  /\ \E s \in Sessions, b \in BookArgs : BeginCheckout(s, "m1", b, LoanDays)

ConcMemberCheckout ==
  /\ Len(member_transactions) + InFlight("member_checkout_book") < MaxMemberTxns
  /\ \E s \in Sessions, u \in Users \cup {NoUser}, b \in BookArgs :
       BeginMemberCheckout(s, u, b, LoanDays)

ConcFinishCheckout == \E s \in Sessions : FinishCheckout(s)

ConcFinishMemberCheckout == \E s \in Sessions : FinishMemberCheckout(s)

ConcReturn == \E s \in Sessions, t \in TxnIds : BeginReturn(s, t)

ConcFinishReturn == \E s \in Sessions : FinishReturn(s)

NextConc ==
  \/ ConcCheckout
  \/ ConcMemberCheckout
  \/ ConcFinishCheckout
  \/ ConcFinishMemberCheckout
  \/ ConcReturn
  \/ ConcFinishReturn

SpecConc == Init /\ [][NextConc]_vars

\* generate_member_id step by step.  The call enters the LOOP; each pass
\* builds new_id from the count of members, then looks it up and either
\* returns it, and Members.handleSubmit inserts the row, or starts the next
\* pass.  The field txn of the session holds new_id.
BeginGenerateMemberId(s) ==
  /\ procs[s].pc = "idle"
  /\ procs' = [procs EXCEPT ![s] =
                [Idle EXCEPT !.pc = "loop", !.op = "generate_member_id",
                             !.started = now]]
  /\ UNCHANGED <<books, transactions, member_transactions, now, last, members,
                 booksPage, paid_amount, staffVars, borrowingPage>>

\* new_id := 'LIB-' || year || '-' || LPAD(COUNT(*) + 1, 4, '0')
GenerateMemberIdBuild(s) ==
  /\ procs[s].pc = "loop"
  /\ procs' = [procs EXCEPT
                ![s].pc = "built",
                ![s].txn = MemberId(Year(procs[s].started),
                                    Cardinality(members) + 1)]
  /\ UNCHANGED <<books, transactions, member_transactions, now, last, members,
                 booksPage, paid_amount, staffVars, borrowingPage>>

\* SELECT EXISTS(...) INTO id_exists; IF NOT id_exists THEN RETURN new_id
GenerateMemberIdLoop(s) ==
  /\ procs[s].pc = "built"
  /\ LET new_id == procs[s].txn
         id_exists == new_id \in members
     IN IF ~id_exists
        THEN /\ procs' = [procs EXCEPT ![s] = Idle]
             /\ members' = members \cup {new_id}
             /\ last' = Outcome("generate_member_id", 0, TRUE, "", new_id, 0)
        ELSE /\ procs' = [procs EXCEPT ![s].pc = "loop"]
             /\ UNCHANGED <<members, last>>
  /\ UNCHANGED <<books, transactions, member_transactions, now, booksPage,
                 paid_amount, staffVars, borrowingPage>>

Registrar == "s1"

CallGenerate ==
  Cardinality(members) < MaxMembers /\ BeginGenerateMemberId(Registrar)

GenerateBuild == GenerateMemberIdBuild(Registrar)

GenerateLoop == GenerateMemberIdLoop(Registrar)

NextGenerate ==
  \/ CallGenerate
  \/ GenerateBuild
  \/ GenerateLoop
  \/ DeleteMember
  \/ NewYear

\* a call that has started goes on running: the session executes the LOOP
\* until it returns
SpecGenerate ==
  /\ InitMembers /\ [][NextGenerate]_vars
  /\ WF_vars(GenerateBuild) /\ WF_vars(GenerateLoop)

\* the Borrowing page open on the transactions table while loans are made
\* and returned and the clock advances
PollFine == \E id \in borrowingPage.calls : BorrowingCalculateFine(id)

NextPoll ==
  \/ CheckoutOnce
  \/ Return
  \/ Advance
  \/ BorrowingMount
  \/ BorrowingFetchData
  \/ PollFine

\* a fetch that was started completes, and a calculateFine that was called
\* runs
SpecPoll ==
  Init /\ [][NextPoll]_vars /\ WF_vars(BorrowingFetchData) /\ WF_vars(PollFine)

\* SpecDesk: staff loans and self-service loans side by side.  The ids of
\* the two tables are distinct uuids: the id of row i of member_transactions
\* is written MaxTxns + i where a procedure of the transactions table is
\* given it.
MemberTxnUuid(i) == MaxTxns + i
DeskIds ==
  DOMAIN transactions
    \cup {MemberTxnUuid(i) : i \in DOMAIN member_transactions}

CheckoutDesk == CheckoutOnceBy({0})

\* each book is borrowed at most once by the member
MemberCheckoutDesk ==
  \E b \in Books :
    /\ \A i \in DOMAIN member_transactions :
         member_transactions[i].book_id # b
    /\ member_checkout_book("u1", b, 0)

ReturnDesk == \E t \in DeskIds : return_book(t)

RenewDesk ==
  \E t \in DeskIds, e \in ExtendDaysSet :
    /\ t \in DOMAIN transactions => transactions[t].due_date <= MaxNow
    /\ renew_book(t, e)

MarkFinePaidDesk == \E t \in DeskIds : mark_fine_paid(t)

CalculateFineDesk == \E t \in DeskIds : calculate_fine(t)

NextDesk ==
  \/ CheckoutDesk
  \/ MemberCheckoutDesk
  \/ ReturnDesk
  \/ RenewDesk
  \/ MarkFinePaidDesk
  \/ CalculateFineDesk
  \/ CalculateMemberFine
  \/ Advance

\* the catalogue holds one book, with MaxCopies copies
InitDesk ==
  /\ books = [b \in {"b2"} |-> NewBook(MaxCopies)]
  /\ booksPage = MountedBooksPage(books)
  /\ members = InitialMembers
  /\ InitRest

SpecDesk == InitDesk /\ [][NextDesk]_vars

\* SpecLate: one loan that stays out over FineDays days and a tick, renewed
\* and its fine calculated on the way
RenewLate == RenewUpTo(Days(FineDays))

NextLate ==
  \/ FirstCheckout
  \/ RenewLate
  \/ CalculateFine
  \/ AdvanceFine

SpecLate == Init /\ [][NextLate]_vars

\* the manage-staff endpoint alone
NextStaff == StaffRequest

SpecStaff == Init /\ [][NextStaff]_vars
\* ------------------------------------------------------------ properties
\* number of whole days from one timestamp to a later one, 0 if it is not later
WholeDays(from, to) ==
  IF to < from THEN 0
  ELSE CHOOSE d \in 0..(to - from) :
         from + d * TicksPerDay <= to /\ to < from + (d + 1) * TicksPerDay

\* loans of a book that are still out, in both tables
Loans(b) ==
  Cardinality({i \in DOMAIN transactions :
                 transactions[i].book_id = b /\ transactions[i].status # "returned"})
  + Cardinality({i \in DOMAIN member_transactions :
                 member_transactions[i].book_id = b
                 /\ member_transactions[i].status # "returned"})

\* C1 (SpecInv): whatever checkout_book, member_checkout_book and return_book
\* calls were made one after the other, every book has
\* 0 <= available_copies <= total_copies.
C1_CopiesWithinTotal ==
  \A b \in DOMAIN books :
    /\ 0 <= books[b].available_copies
    /\ books[b].available_copies <= books[b].total_copies

\* a return succeeded and brought its book back to all copies available, while
\* another book has no copy left
C1_Witness ==
  /\ last.op = "return_book" /\ last.ok
  /\ books[transactions[last.id].book_id].available_copies
       = books[transactions[last.id].book_id].total_copies
  /\ \E b \in DOMAIN books : books[b].available_copies = 0 /\ Loans(b) > 0

\* C2 (SpecConc): of the checkout calls that run at the same time on a book,
\* no more succeed than there were copies, and available_copies never
\* becomes negative.
C2_NoOversell ==
  \A b \in DOMAIN books :
    /\ books[b].available_copies >= 0
    /\ Loans(b) <= books[b].total_copies

\* C3 (Spec): a checkout_book call for a book id that does not resolve raises
\* 'Book not found', one for a book with available_copies <= 0 raises 'No
\* available copies of this book', and a call that raises leaves books,
\* transactions and member_transactions as they were.
C3_FailedCheckoutChangesNothing ==
  [][\A m \in Members, b \in BookArgs, d \in DueDaysSet :
       checkout_book(m, b, d) =>
         /\ b \notin DOMAIN books =>
              ~last'.ok /\ last'.msg = "Book not found"
         /\ (b \in DOMAIN books /\ books[b].available_copies <= 0) =>
              ~last'.ok /\ last'.msg = "No available copies of this book"
         /\ ~last'.ok => UNCHANGED db]_vars

\* a checkout was refused for lack of copies while a loan exists
C3_Witness ==
  /\ last.op = "checkout_book" /\ ~last.ok
  /\ last.msg = "No available copies of this book"
  /\ \E b \in DOMAIN books : books[b].available_copies = 0 /\ Loans(b) > 0

\* C4 (Spec): a checkout_book(member, book, due_days) call that succeeds
\* appends exactly one row to transactions, with status borrowed, no
\* return_date, checkout_date = now and due_date = now + due_days days,
\* lowers that book's available_copies by 1, and changes no other book and
\* no other transaction.
C4_CheckoutEffect ==
  [][\A m \in Members, b \in BookArgs, d \in DueDaysSet :
       (checkout_book(m, b, d) /\ last'.ok) =>
         /\ Len(transactions') = Len(transactions) + 1
         /\ \A i \in DOMAIN transactions : transactions'[i] = transactions[i]
         /\ transactions'[Len(transactions) + 1] =
              [member_id |-> m, book_id |-> b, checkout_date |-> now,
               due_date |-> now + d * TicksPerDay, return_date |-> NULL,
               status |-> "borrowed", fine_amount |-> 0, fine_paid |-> FALSE]
         /\ books'[b].available_copies = books[b].available_copies - 1
         /\ books'[b].total_copies = books[b].total_copies
         /\ \A o \in DOMAIN books \ {b} : books'[o] = books[o]
         /\ DOMAIN books' = DOMAIN books
         /\ UNCHANGED member_transactions]_vars

\* a second loan was checked out, later than time 0 and with a loan period
C4_Witness ==
  /\ last.op = "checkout_book" /\ last.ok /\ last.id = 2
  /\ Len(transactions) = 2
  /\ transactions[2].checkout_date > 0
  /\ transactions[2].due_date > transactions[2].checkout_date
  /\ transactions[2].book_id # transactions[1].book_id

\* C5 (Spec): a return_book call on a transaction that is not returned
\* succeeds, marks it returned and adds 1 to its book's available_copies; a
\* call on a returned transaction raises 'Book already returned' and changes
\* neither books nor transactions; and a returned transaction stays
\* returned, so the book gets the copy back exactly once.
C5_ReturnOnce ==
  [][/\ \A t \in DOMAIN transactions :
          return_book(t) =>
            LET bk == transactions[t].book_id IN
            IF transactions[t].status # "returned"
            THEN /\ last'.ok
                 /\ transactions'[t].status = "returned"
                 /\ books'[bk].available_copies = books[bk].available_copies + 1
            ELSE /\ ~last'.ok /\ last'.msg = "Book already returned"
                 /\ UNCHANGED db
     /\ \A t \in DOMAIN transactions :
          transactions[t].status = "returned" =>
            transactions'[t].status = "returned"]_vars

\* a return was refused because the transaction had been returned before
C5_Witness ==
  /\ last.op = "return_book" /\ ~last.ok /\ last.msg = "Book already returned"
  /\ transactions[last.id].status = "returned"
  /\ transactions[last.id].return_date # NULL

\* C6 (SpecConc): return_book calls that run at the same time on one
\* transaction give the copy back once: available_copies plus the loans
\* still out never exceeds total_copies.
C6_ReturnedOnceConcurrently ==
  \A b \in DOMAIN books :
    books[b].available_copies + Loans(b) <= books[b].total_copies

\* C7 (SpecFine): calculate_fine on a transaction with return_date set returns
\* and stores 200 times the whole days from due_date to return_date: 1000
\* for a return 5 days after due_date, 0 for a return on or before due_date.
C7_FineOfReturned ==
  (/\ last.op = "calculate_fine"
   /\ last.id \in DOMAIN transactions
   /\ transactions[last.id].return_date # NULL) =>
    LET row == transactions[last.id] IN
    /\ last.value = 200 * WholeDays(row.due_date, row.return_date)
    /\ row.fine_amount = last.value
    /\ row.return_date = row.due_date + 5 * TicksPerDay => last.value = 1000
    /\ row.return_date <= row.due_date => last.value = 0

\* calculate_fine was called on a loan returned 5 days late and answered 1000
C7_Witness ==
  /\ last.op = "calculate_fine"
  /\ last.id \in DOMAIN transactions
  /\ transactions[last.id].return_date
       = transactions[last.id].due_date + 5 * TicksPerDay
  /\ last.value = 1000

\* C8 (SpecFine): calculate_fine on a transaction that is still borrowed
\* returns and stores 200 times the whole days from due_date to now, which is
\* never less than the amount an earlier call stored: 600 three days after
\* due_date, 1000 five days after.
C8_FineOfBorrowed ==
  [][\A t \in DOMAIN transactions :
       (calculate_fine(t) /\ transactions[t].return_date = NULL
                          /\ transactions[t].status = "borrowed") =>
         /\ last'.value = 200 * WholeDays(transactions[t].due_date, now)
         /\ transactions'[t].fine_amount = last'.value
         /\ last'.value >= transactions[t].fine_amount
         /\ now = transactions[t].due_date + 3 * TicksPerDay => last'.value = 600
         /\ now = transactions[t].due_date + 5 * TicksPerDay => last'.value = 1000
    ]_vars

\* calculate_fine answered 1000 on a loan still out five days after due_date
C8_Witness ==
  /\ last.op = "calculate_fine"
  /\ last.id \in DOMAIN transactions
  /\ transactions[last.id].return_date = NULL
  /\ now = transactions[last.id].due_date + 5 * TicksPerDay
  /\ last.value = 1000
  /\ transactions[last.id].fine_amount = 1000

\* C9 (Spec): a return_book call that succeeds runs calculate_fine exactly
\* once: the transaction then has return_date = now and fine_amount = 200
\* times the whole days from due_date to that return_date.
C9_ReturnCalculatesFine ==
  [][\A t \in DOMAIN transactions :
       (return_book(t) /\ last'.ok) =>
         /\ last'.calcs = 1
         /\ transactions'[t].return_date = now
         /\ transactions'[t].fine_amount
              = 200 * WholeDays(transactions[t].due_date, now)]_vars

\* a late return stored a fine on a transaction that had none stored
C9_Witness ==
  /\ last.op = "return_book" /\ last.ok /\ last.calcs = 1
  /\ transactions[last.id].fine_amount = 200
  /\ transactions[last.id].return_date
       >= transactions[last.id].due_date + TicksPerDay

\* C10 (SpecRenew): renew_book on a borrowed or overdue transaction whose
\* member has a row in transactions with fine_amount > 0 and fine_paid = false
\* answers success = false with the unpaid-fines message and changes nothing.
C10_UnpaidFinesBlockRenewal ==
  [][\A t \in DOMAIN transactions, e \in ExtendDaysSet :
       (/\ renew_book(t, e)
        /\ transactions[t].status \in {"borrowed", "overdue"}
        /\ \E i \in DOMAIN transactions :
             /\ transactions[i].member_id = transactions[t].member_id
             /\ transactions[i].fine_amount > 0
             /\ ~transactions[i].fine_paid) =>
         /\ ~last'.ok
         /\ last'.msg = UnpaidFinesMessage
         /\ UNCHANGED db]_vars

\* a renewal of a loan without a fine was refused because of the unpaid fine
\* of the member's loan of another book
C10_Witness ==
  /\ last.op = "renew_book" /\ ~last.ok /\ last.msg = UnpaidFinesMessage
  /\ last.id \in DOMAIN transactions
  /\ transactions[last.id].fine_amount = 0
  /\ \E i \in DOMAIN transactions :
       /\ i # last.id
       /\ transactions[i].member_id = transactions[last.id].member_id
       /\ transactions[i].book_id # transactions[last.id].book_id
       /\ transactions[i].fine_amount > 0
       /\ ~transactions[i].fine_paid

\* the columns of a transaction that renew_book does not write
RenewalFrame(row) ==
  [member_id |-> row.member_id, book_id |-> row.book_id,
   checkout_date |-> row.checkout_date, return_date |-> row.return_date,
   fine_amount |-> row.fine_amount, fine_paid |-> row.fine_paid]

C12_RenewalRefused ==
  [][/\ \A t \in TxnIds, e \in ExtendDaysSet :
          renew_book(t, e) =>
            /\ t \notin DOMAIN transactions =>
                 /\ ~last'.ok /\ last'.msg = "Transaction not found"
                 /\ UNCHANGED db
            /\ (t \in DOMAIN transactions
                  /\ transactions[t].status = "returned") =>
                 /\ ~last'.ok
                 /\ last'.msg = "Book must be currently borrowed to renew"
                 /\ UNCHANGED db
     /\ \A t \in DOMAIN transactions :
          transactions[t].status = "returned" =>
            transactions'[t].due_date = transactions[t].due_date]_vars

\* the renewal of a returned transaction was refused
C12_Witness ==
  /\ last.op = "renew_book" /\ ~last.ok
  /\ last.msg = "Book must be currently borrowed to renew"
  /\ last.id \in DOMAIN transactions
  /\ transactions[last.id].status = "returned"

\* C13 (SpecEngine): mark_fine_paid(t) sets fine_paid of t to true, also when
\* its fine_amount is 0, and leaves every other column of t, every other
\* transaction, every book and member_transactions as they were.
C13_MarkFinePaidEffect ==
  [][\A t \in TxnIds :
       mark_fine_paid(t) =>
         /\ DOMAIN transactions' = DOMAIN transactions
         /\ \A i \in DOMAIN transactions :
              transactions'[i] =
                IF i = t THEN [transactions[i] EXCEPT !.fine_paid = TRUE]
                ELSE transactions[i]
         /\ UNCHANGED <<books, member_transactions>>]_vars

\* a fine of 0 was marked paid
C13_Witness ==
  /\ last.op = "mark_fine_paid"
  /\ last.id \in DOMAIN transactions
  /\ transactions[last.id].fine_paid
  /\ transactions[last.id].fine_amount = 0
  /\ paid_amount[last.id] = 0

\* C14 (SpecEngine): a transaction whose fine_paid is true has fine_paid true
\* after every checkout_book, return_book, calculate_fine, mark_fine_paid and
\* renew_book call.
C14_FinePaidOneWay ==
  [][\A t \in DOMAIN transactions :
       transactions[t].fine_paid =>
         (t \in DOMAIN transactions' /\ transactions'[t].fine_paid)]_vars

\* calculate_fine stored a fine on a transaction that was marked paid before
C14_Witness ==
  /\ last.op = "calculate_fine"
  /\ last.id \in DOMAIN transactions
  /\ last.id \in DOMAIN paid_amount
  /\ transactions[last.id].fine_paid
  /\ last.value > 0

\* C15 (SpecPaid): calculate_fine on a transaction that is still borrowed and
\* whose fine_paid is true stores the amount calculated at the time of the
\* call, whatever amount was stored when the fine was marked paid, and leaves
\* fine_paid true.
C15_PaidFineRecalculated ==
  [][\A t \in DOMAIN transactions :
       (/\ calculate_fine(t)
        /\ transactions[t].fine_paid
        /\ transactions[t].return_date = NULL
        /\ transactions[t].status = "borrowed") =>
         /\ transactions'[t].fine_paid
         /\ transactions'[t].fine_amount
              = 200 * WholeDays(transactions[t].due_date, now)]_vars

\* a borrowed transaction is marked paid and its stored fine is no longer the
\* fine of 200 that was stored when it was marked paid
C15_Witness ==
  \E t \in DOMAIN transactions :
    /\ t \in DOMAIN paid_amount
    /\ paid_amount[t] = 200
    /\ transactions[t].fine_paid
    /\ transactions[t].status = "borrowed"
    /\ transactions[t].fine_amount > paid_amount[t]
    /\ last.op = "calculate_fine" /\ last.id = t

\* C16 (SpecMembers): a value that generate_member_id returns is the
\* member_id of no row that members holds at the time of the call, whatever
\* insertions and deletions made the table.
C16_GeneratedIdIsNew ==
  [][(MembersHandleSubmit /\ last'.ok) =>
       /\ last'.value \notin members
       /\ members' = members \cup {last'.value}
       /\ Cardinality(members') = Cardinality(members) + 1]_vars

\* after a deletion the table holds a sequence number of the year before, and
\* the same sequence number was generated again in the new year
C16_Witness ==
  /\ last.op = "generate_member_id" /\ last.ok
  /\ last.value = MemberId(1, 2)
  /\ members = {MemberId(0, 2), MemberId(1, 2)}

\* C17 (SpecEngine): after any checkout_book, return_book, calculate_fine,
\* mark_fine_paid and renew_book calls a transaction has a return_date
\* exactly when its status is returned, and a return_date that is set is
\* never written again.
C17_ReturnDateOfReturned ==
  /\ [](\A t \in DOMAIN transactions :
          transactions[t].return_date # NULL
            <=> transactions[t].status = "returned")
  /\ [][\A t \in DOMAIN transactions :
          transactions[t].return_date # NULL =>
            /\ t \in DOMAIN transactions'
            /\ transactions'[t].return_date = transactions[t].return_date]_vars

\* a transaction returned at an earlier time was given to return_book and to
\* calculate_fine again and shows the return_date of its first return
C17_Witness ==
  /\ last.op \in {"return_book", "calculate_fine"}
  /\ last.id \in DOMAIN transactions
  /\ transactions[last.id].status = "returned"
  /\ transactions[last.id].return_date # NULL
  /\ transactions[last.id].return_date < now
  /\ last.op = "return_book" => ~last.ok

\* C18 (SpecSelf): member_checkout_book succeeds exactly when the caller is
\* authenticated, the book exists and its available_copies is above 0,
\* whatever loans and unpaid fines the caller has; without an authenticated
\* caller it raises 'User not authenticated' and changes nothing.
C18_MemberCheckoutAdmission ==
  [][\A u \in Callers, b \in BookArgs, d \in DueDaysSet :
       member_checkout_book(u, b, d) =>
         /\ last'.ok <=> (/\ u # NoUser
                          /\ b \in DOMAIN books
                          /\ books[b].available_copies > 0)
         /\ u = NoUser =>
              /\ last'.msg = "User not authenticated"
              /\ UNCHANGED db]_vars

\* a caller with a loan still out and an unpaid fine on it borrowed again
C18_Witness ==
  /\ last.op = "member_checkout_book" /\ last.ok /\ last.id = 2
  /\ member_transactions[2].user_id = member_transactions[1].user_id
  /\ member_transactions[1].status = "borrowed"
  /\ member_transactions[1].fine_amount > 0
  /\ ~member_transactions[1].fine_paid

\* C19 (SpecInv): whatever checkout_book, member_checkout_book and return_book
\* calls were made one after the other, the status of a book is borrowed
\* exactly when its available_copies is 0 and available exactly when it is
\* above 0, and never damaged or lost.
C19_StatusFollowsCopies ==
  \A b \in DOMAIN books :
    /\ books[b].status = "borrowed" <=> books[b].available_copies = 0
    /\ books[b].status = "available" <=> books[b].available_copies > 0
    /\ books[b].status \notin {"damaged", "lost"}

\* a return made a book available again whose last copy had been lent by a
\* checkout, while a member's checkout keeps another book borrowed
C19_Witness ==
  /\ last.op = "return_book" /\ last.ok
  /\ Len(transactions) > 0
  /\ LET bk == transactions[last.id].book_id IN
       /\ books[bk].available_copies = 1
       /\ books[bk].total_copies = 1
       /\ books[bk].status = "available"
  /\ \E i \in DOMAIN member_transactions :
       /\ books[member_transactions[i].book_id].status = "borrowed"
       /\ books[member_transactions[i].book_id].available_copies = 0

\* C20 (SpecBooks): saving the edit of a book on the Books page leaves the
\* available_copies of every book as it is stored at the time of the save,
\* whatever checkouts and returns took place since the book was loaded into
\* the form.
C20_EditKeepsAvailableCopies ==
  [][\A id \in Books :
       (BooksHandleSubmit(id) /\ booksPage.editingBook # NoEditingBook) =>
         \A b \in DOMAIN books :
           books'[b].available_copies = books[b].available_copies]_vars

\* the caller is a user whose role is admin
IsAdmin(authorization) ==
  /\ authorization \in users
  /\ {r \in user_roles : r[1] = authorization} = {<<authorization, "admin">>}

\* C21 (SpecStaff): the manage-staff endpoint acts only for an admin.  A
\* request with no Authorization header or with a token that resolves to no
\* user is answered 401, a request of a user whose role is not admin is
\* answered 403, and such a request changes no user, role or profile and
\* reads none out.
C21_AdminGate ==
  [][response' # response
       \/ <<users, user_roles, member_profiles>>' #
            <<users, user_roles, member_profiles>>
     => LET a == response'.authorization
        IN /\ a = NoAuthorization => response'.status = 401
           /\ a # NoAuthorization /\ a \notin users => response'.status = 401
           /\ a \in users /\ ~IsAdmin(a) => response'.status = 403
           /\ ~IsAdmin(a) =>
                /\ UNCHANGED <<users, user_roles, member_profiles>>
                /\ response'.staff = {}
                /\ response'.user_id = ""]_vars

\* a staff account the endpoint created asks and is answered 403
C21_Witness ==
  /\ response.status = 403
  /\ <<response.authorization, "staff">> \in user_roles
  /\ response.authorization \notin {Admin} \cup Users

\* C22 (SpecStaff): the create action undoes what it did when it fails.  When the
\* compensating deletes succeed, a create that is not answered with success
\* leaves the users, roles and profiles as they were, and a create answered
\* with success leaves the new user with the role staff and a profile.
C22_CreateAllOrNothing ==
  [][response' # response /\ response'.action = "create"
       /\ IsAdmin(response'.authorization) /\ response'.cleanup # "failed"
     => IF response'.status = 200
        THEN /\ response'.user_id \in users' \ users
             /\ <<response'.user_id, "staff">> \in user_roles'
             /\ response'.user_id \in DOMAIN member_profiles'
        ELSE UNCHANGED <<users, user_roles, member_profiles>>]_vars

\* a create whose profile assignment failed twice was undone
C22_Witness ==
  /\ response.action = "create"
  /\ response.status = 500
  /\ response.error = "profile"
  /\ response.cleanup = "done"
  /\ \E i \in DOMAIN NewUserIds : NewUserIds[i] \in users

\* C23 (SpecGenerate): every call of generate_member_id returns an id, whatever insertions
\* and deletions made the members table.
C23_GenerateTerminates ==
  procs[Registrar].pc # "idle" ~> procs[Registrar].pc = "idle"

\* C24 (SpecPoll): the fine polling of the Borrowing page comes to rest.  After every
\* fetch the cycle of calculateFine calls and refetches ends: the page is not
\* loading and no calculateFine call is under way.
C24_PollingQuiesces ==
  borrowingPage.loading ~>
    (~borrowingPage.loading /\ borrowingPage.calls = {})

\* C25 (SpecInv): copies are conserved.  Every checkout_book,
\* member_checkout_book and return_book call, made one after the other, leaves
\* for every book the sum of available_copies and the number of rows of
\* transactions and member_transactions for it that are not returned as it
\* was, so the sum stays at its initial value.
C25_CopiesConserved ==
  [][\A b \in DOMAIN books :
       (books[b].available_copies + Loans(b))' =
         books[b].available_copies + Loans(b)]_vars

\* a book was lent through both procedures and one loan of it came back
C25_Witness ==
  \E b \in DOMAIN books :
    /\ \E i \in DOMAIN transactions :
         transactions[i].book_id = b /\ transactions[i].status = "returned"
    /\ \E i \in DOMAIN member_transactions : member_transactions[i].book_id = b
    /\ last.op = "return_book" /\ last.ok

\* self-service loans of a book
MemberLoans(b) ==
  Cardinality({i \in DOMAIN member_transactions :
                 member_transactions[i].book_id = b})

\* C26 (SpecDesk): no procedure returns a self-service loan.  return_book,
\* renew_book and mark_fine_paid given the id of a member_transactions row
\* find no transaction; every member_transactions row keeps status borrowed,
\* no return_date and fine_paid false, only calculate_member_fine writes it
\* and only its fine_amount; the copy the loan took is never added back.
C26_SelfServiceNeverReturned ==
  /\ [](\A i \in DOMAIN member_transactions :
          /\ member_transactions[i].status = "borrowed"
          /\ member_transactions[i].return_date = NULL
          /\ ~member_transactions[i].fine_paid)
  /\ [](\A b \in DOMAIN books :
          books[b].available_copies + MemberLoans(b) <= books[b].total_copies)
  /\ [][\A i \in DOMAIN member_transactions :
          /\ i \in DOMAIN member_transactions'
          /\ [member_transactions'[i] EXCEPT !.fine_amount = 0] =
               [member_transactions[i] EXCEPT !.fine_amount = 0]
          /\ member_transactions'[i] # member_transactions[i] =>
               last'.op = "calculate_member_fine" /\ last'.id = i]_vars
  /\ [][last' # last /\ last'.id \notin TxnIds
          /\ last'.op \in {"return_book", "renew_book", "mark_fine_paid"}
        => UNCHANGED db]_vars

\* return_book was given the id of a self-service loan that is past due and
\* found no transaction
C26_Witness ==
  /\ last.op = "return_book" /\ ~last.ok
  /\ last.msg = "Transaction not found"
  /\ \E i \in DOMAIN member_transactions :
       /\ last.id = MemberTxnUuid(i)
       /\ member_transactions[i].fine_amount > 0

\* C27 (SpecDesk): no procedure stores the status overdue.  Starting without
\* overdue rows, after any checkout_book, member_checkout_book, return_book,
\* renew_book, mark_fine_paid, calculate_fine and calculate_member_fine calls
\* the status of every row of transactions and member_transactions is
\* borrowed or returned, also for a loan that is past due.
C27_OverdueNeverStored ==
  /\ \A i \in DOMAIN transactions :
       transactions[i].status \in {"borrowed", "returned"}
  /\ \A i \in DOMAIN member_transactions :
       member_transactions[i].status \in {"borrowed", "returned"}

\* a loan a whole day past due had its fine calculated: the row is stored as
\* borrowed, and the Borrowing page shows it as overdue
C27_Witness ==
  /\ last.op = "calculate_fine"
  /\ last.id \in DOMAIN transactions
  /\ last.value > 0
  /\ transactions[last.id].status = "borrowed"
  /\ fetchTransactions(transactions, now)[last.id].status = "overdue"

\* C28 (SpecEngine): returned is terminal.  No checkout_book, return_book,
\* renew_book, mark_fine_paid or calculate_fine call, at any later time,
\* changes the status, return_date or due_date of a returned transaction, and
\* every calculate_fine leaves its fine_amount at the value stored when it
\* was returned.
C28_ReturnedIsTerminal ==
  [][\A t \in DOMAIN transactions :
       transactions[t].status = "returned" =>
         /\ t \in DOMAIN transactions'
         /\ transactions'[t].status = "returned"
         /\ transactions'[t].return_date = transactions[t].return_date
         /\ transactions'[t].due_date = transactions[t].due_date
         /\ transactions'[t].fine_amount = transactions[t].fine_amount]_vars

\* a loan returned within a day of its due_date, without a fine, had its fine
\* calculated again a whole day after the due_date
C28_Witness ==
  /\ last.op = "calculate_fine"
  /\ last.id \in DOMAIN transactions
  /\ transactions[last.id].status = "returned"
  /\ transactions[last.id].return_date < now
  /\ transactions[last.id].fine_amount = 0
  /\ WholeDays(transactions[last.id].due_date, now) >= 1

\* C29 (SpecLate): the unpaid-fine check of renew_book reads the stored
\* fine_amount only.  A borrowed transaction whose due_date is one or more
\* whole days in the past but whose stored fine_amount is 0 is renewed when
\* its member has no unpaid stored fine, and a calculate_fine call after the
\* renewal computes the fine from the extended due_date.
C29_RenewalReadsStoredFine ==
  /\ [][\A t \in DOMAIN transactions, e \in ExtendDaysSet :
          /\ renew_book(t, e)
          /\ transactions[t].status = "borrowed"
          /\ WholeDays(transactions[t].due_date, now) >= 1
          /\ transactions[t].fine_amount = 0
          /\ \A i \in DOMAIN transactions :
               transactions[i].member_id = transactions[t].member_id =>
                 transactions[i].fine_amount = 0 \/ transactions[i].fine_paid
          => /\ last'.ok
             /\ transactions'[t].due_date = transactions[t].due_date + Days(e)
             /\ transactions'[t].fine_amount = 0]_vars
  /\ [][\A t \in DOMAIN transactions :
          calculate_fine(t) /\ transactions[t].status = "borrowed"
          => /\ last'.value =
                  FineRate * WholeDays(transactions[t].due_date, now)
             /\ transactions'[t].fine_amount = last'.value
             /\ transactions'[t].due_date = transactions[t].due_date]_vars

\* a loan two whole days past its due_date, its fine never calculated, was
\* renewed by one day
C29_Witness ==
  /\ last.op = "renew_book" /\ last.ok
  /\ last.id \in DOMAIN transactions
  /\ transactions[last.id].fine_amount = 0
  /\ WholeDays(transactions[last.id].due_date, now) >= 1

\* C30 (SpecBooks): saving the edit of a book with a new total_copies of 1
\* or more leaves the stored available_copies of the book between 0 and the
\* stored total_copies.
C30_EditKeepsCopiesInRange ==
  [][\A id \in Books :
       (/\ BooksHandleSubmit(id)
        /\ booksPage.editingBook # NoEditingBook
        /\ booksPage.formData.total_copies >= 1
        /\ booksPage.formData.total_copies #
             books[booksPage.editingBook.id].total_copies) =>
         LET row == books'[booksPage.editingBook.id]
         IN 0 <= row.available_copies
            /\ row.available_copies <= row.total_copies]_vars
====
